---- MODULE Spec2Model ----
(***************************************************************************)
(* pil-splitter / pil-squasher: conversion between a combined ELF image    *)
(* (mbn) and its split representation (mdt + bNN files).                   *)
(*                                                                         *)
(* Files are sequences of bytes (0..255).  An integer of the program is a  *)
(* sequence of base-256 digits, least significant digit first, so that     *)
(* 32- and 64-bit values keep their width; shifts and masks of the code    *)
(* are operations on the digits.                                           *)
(***************************************************************************)
EXTENDS Integers, Sequences, FiniteSets, TLC

VARIABLES
    disk,         \* the file system: path -> contents, for the files that exist
    host_le,      \* is_little_endian() of the build
    input,        \* the logical description of the mbn the run started from
    pc,           \* position of the running program ("idle": none running)
    mbn_path,     \* arguments of the running (or last) invocation
    mdt_path,
    result,       \* outcome of the last run of each program
    streams,      \* the stream objects currently open
    format,       \* ElfFormat returned by detect_elf_format
    ehdr,         \* raw bytes of the ELF header read
    phdrs,        \* raw bytes of the program headers read
    idx,          \* loop index i of the segment loop
    hash_offset,  \* squash_impl's cursor into the mdt
    trace,        \* the file operations of the running (or last) invocation
    probe         \* argument/result record of the pure functions under test

vars == <<disk, host_le, input, pc, mbn_path, mdt_path, result, streams,
          format, ehdr, phdrs, idx, hash_offset, trace, probe>>

(***************************************************************************)
(* Bounds of the model                                                     *)
(***************************************************************************)
MaxPh == 2      \* largest e_phnum of an input
SegLen == 2     \* length of a data segment
PhGap == 1      \* padding bytes between the ELF header and the table

(***************************************************************************)
(* <elf.h> values used by the code                                         *)
(***************************************************************************)
EI_NIDENT == 16
SELFMAG == 4
EI_CLASS == 4
EI_DATA == 5
ELFCLASS32 == 1
ELFCLASS64 == 2
ELFDATA2LSB == 1
ELFDATA2MSB == 2
ELFMAG == <<127, 69, 76, 70>>

\* sizeof(ElfHeader), sizeof(ElfPhdr) for the two instantiations
EhSize(cls) == IF cls = ELFCLASS32 THEN 52 ELSE 64
PhSize(cls) == IF cls = ELFCLASS32 THEN 32 ELSE 56

\* offsetof / sizeof of the fields the code decodes: <<offset, width>>
Off_e_phoff(cls) == IF cls = ELFCLASS32 THEN <<28, 4>> ELSE <<32, 8>>
Off_e_phnum(cls) == IF cls = ELFCLASS32 THEN <<44, 2>> ELSE <<56, 2>>
Off_p_offset(cls) == IF cls = ELFCLASS32 THEN <<4, 4>> ELSE <<8, 8>>
Off_p_filesz(cls) == IF cls = ELFCLASS32 THEN <<16, 4>> ELSE <<32, 8>>
Off_p_flags(cls) == IF cls = ELFCLASS32 THEN <<24, 4>> ELSE <<4, 4>>

(***************************************************************************)
(* Bytes and integers                                                      *)
(***************************************************************************)
Max(a, b) == IF a >= b THEN a ELSE b

Reverse(s) == [j \in 1..Len(s) |-> s[Len(s) + 1 - j]]

\* A value too large for any offset or length of the model's files
Huge == 2^30

\* The number a digit sequence stands for (saturating at Huge)
ToNat(d) ==
    IF (\E j \in 5..Len(d) : d[j] # 0) \/ (Len(d) >= 4 /\ d[4] >= 64)
    THEN Huge
    ELSE (IF Len(d) >= 1 THEN d[1] ELSE 0)
       + (IF Len(d) >= 2 THEN d[2] * 256 ELSE 0)
       + (IF Len(d) >= 3 THEN d[3] * 65536 ELSE 0)
       + (IF Len(d) >= 4 THEN d[4] * 16777216 ELSE 0)

\* The digits of n (0 <= n < 2^31), w digits wide
Digits(n, w) ==
    [j \in 1..w |-> IF j <= 3 THEN (n \div (256^(j-1))) % 256
                    ELSE IF j = 4 THEN (n \div 16777216) % 256
                    ELSE 0]

\* a & b on single bytes
RECURSIVE AndByte(_, _)
AndByte(a, b) ==
    IF a = 0 \/ b = 0 THEN 0
    ELSE (a % 2) * (b % 2) + 2 * AndByte(a \div 2, b \div 2)

\* v & m for a mask m < 256
BitAnd(v, m) == [j \in 1..Len(v) |-> IF j = 1 THEN AndByte(v[1], m) ELSE 0]

\* v >> n, zero filled
ShiftRight(v, n) ==
    LET q == n \div 8
        r == n % 8
        D(j) == IF j <= Len(v) THEN v[j] ELSE 0
    IN  [j \in 1..Len(v) |->
            (D(j + q) \div (2^r)) + (D(j + q + 1) % (2^r)) * (2^(8 - r))]

(***************************************************************************)
(* endian_utils.hpp                                                        *)
(***************************************************************************)
is_little_endian == host_le

ByteswapWrong(value) ==
    CASE Len(value) = 1 -> value
      [] Len(value) = 2 -> <<value[2], value[1]>>
      [] Len(value) = 4 -> <<value[4], value[2], value[3], value[1]>>
      [] Len(value) = 8 -> <<value[8], value[7], value[6], value[4],
                             value[5], value[3], value[2], value[1]>>

\* byteswap<T>: each term of the code moves one byte of v
byteswap(value) ==
    CASE Len(value) = 1 -> value
      [] Len(value) = 2 ->
            \* (v << 8) | (v >> 8), truncated to 16 bits
            <<value[2], value[1]>>
      [] Len(value) = 4 ->
            \* (v & 0xFF000000) >> 24 | (v & 0x00FF0000) >> 8
            \* | (v & 0x0000FF00) << 8 | (v & 0x000000FF) << 24
            <<value[4], value[3], value[2], value[1]>>
      [] Len(value) = 8 ->
            \* >> 56, >> 40, >> 24, >> 8, << 8, << 24, << 40, << 56
            <<value[8], value[7], value[6], value[5],
              value[4], value[3], value[2], value[1]>>

from_file_endian(value, file_is_little_endian) ==
    IF file_is_little_endian = is_little_endian THEN value ELSE byteswap(value)

(***************************************************************************)
(* pil_common.hpp: segment classifier                                      *)
(***************************************************************************)
PIL_SEGMENT_TYPE_SHIFT == 24
PIL_SEGMENT_TYPE_MASK == 7
PIL_SEGMENT_TYPE_HASH == 2

is_pil_hash_segment_mask3(p_flags) ==
    ToNat(BitAnd(ShiftRight(p_flags, PIL_SEGMENT_TYPE_SHIFT), 3))
        = PIL_SEGMENT_TYPE_HASH

is_pil_hash_segment(p_flags) ==
    ToNat(BitAnd(ShiftRight(p_flags, PIL_SEGMENT_TYPE_SHIFT), PIL_SEGMENT_TYPE_MASK))
        = PIL_SEGMENT_TYPE_HASH

(***************************************************************************)
(* pil_common.hpp: file I/O utilities.  A stream is the contents of the    *)
(* file it was opened on; `throwing` is its exceptions(failbit | badbit)   *)
(* mask, under which a short read() throws std::ios_base::failure before   *)
(* gcount() is looked at.                                                  *)
(***************************************************************************)
NoBytes == <<>>

Available(data, offset, size) ==
    IF offset >= Len(data) THEN 0
    ELSE IF size <= Len(data) - offset THEN size ELSE Len(data) - offset

read_file_at(data, throwing, offset, size) ==
    IF Available(data, offset, size) # size
    THEN [err |-> IF throwing THEN "ios_failure" ELSE "incomplete_read",
          bytes |-> NoBytes]
    ELSE [err |-> "none", bytes |-> SubSeq(data, offset + 1, offset + size)]

read_struct_at(data, throwing, offset, size) ==
    IF Available(data, offset, size) # size
    THEN [err |-> IF throwing THEN "ios_failure" ELSE "incomplete_read",
          bytes |-> NoBytes]
    ELSE [err |-> "none", bytes |-> SubSeq(data, offset + 1, offset + size)]

\* seekp(offset) then write(): a gap past the old end reads as zeros
write_file_at(data, offset, bytes) ==
    LET newlen == IF Len(bytes) = 0 THEN Len(data)
                  ELSE Max(Len(data), offset + Len(bytes))
    IN  [k \in 1..newlen |->
            IF k > offset /\ k <= offset + Len(bytes) THEN bytes[k - offset]
            ELSE IF k <= Len(data) THEN data[k]
            ELSE 0]

append_to_file_at_start(data, bytes) == write_file_at(data, 0, bytes)

\* seekp(0, end) then write()
append_to_file(data, bytes) == data \o bytes

\* bit_cast of raw bytes to an integer of the host: its digits
bit_cast(raw) == IF is_little_endian THEN raw ELSE Reverse(raw)

\* The member at <<offset, width>> of a raw structure, as the host reads it
Member(raw, ow) == bit_cast(SubSeq(raw, ow[1] + 1, ow[1] + ow[2]))

(***************************************************************************)
(* pil_common.hpp: ELF parsing utilities                                   *)
(***************************************************************************)
NoFormat == [err |-> "none", elf_class |-> 0, is_little_endian |-> FALSE]

detect_elf_format(data, throwing) ==
    IF Len(data) < EI_NIDENT /\ throwing
        THEN [NoFormat EXCEPT !.err = "ios_failure"]
    ELSE IF Len(data) < SELFMAG \/ SubSeq(data, 1, SELFMAG) # ELFMAG
        THEN [NoFormat EXCEPT !.err = "format_magic"]
    ELSE IF data[EI_DATA + 1] \notin {ELFDATA2LSB, ELFDATA2MSB}
        THEN [NoFormat EXCEPT !.err = "format_encoding"]
    ELSE IF data[EI_CLASS + 1] \notin {ELFCLASS32, ELFCLASS64}
        THEN [NoFormat EXCEPT !.err = "format_class"]
    ELSE [err |-> "none",
          elf_class |-> data[EI_CLASS + 1],
          is_little_endian |-> (data[EI_DATA + 1] = ELFDATA2LSB)]

IsFormatError(e) == e \in {"format_magic", "format_encoding", "format_class"}

read_elf_header(data, throwing, cls) ==
    read_struct_at(data, throwing, 0, EhSize(cls))

\* Offsets of the entries read_program_headers reads
PhdrOffsets(eh, cls, le) ==
    LET phoff == ToNat(from_file_endian(Member(eh, Off_e_phoff(cls)), le))
        phnum == ToNat(from_file_endian(Member(eh, Off_e_phnum(cls)), le))
    IN  [i \in 1..phnum |-> phoff + (i - 1) * PhSize(cls)]

read_program_headers(data, throwing, eh, cls, le) ==
    LET offs == PhdrOffsets(eh, cls, le)
        rd == [i \in 1..Len(offs) |->
                  read_struct_at(data, throwing, offs[i], PhSize(cls))]
        bad == {i \in 1..Len(offs) : rd[i].err # "none"}
    IN  IF bad = {}
        THEN [err |-> "none", phdrs |-> [i \in 1..Len(offs) |-> rd[i].bytes]]
        ELSE [err |-> rd[CHOOSE i \in bad : \A j \in bad : i <= j].err,
              phdrs |-> <<>>]

get_phdr_info(phdr, cls, le) ==
    [offset |-> from_file_endian(Member(phdr, Off_p_offset(cls)), le),
     filesz |-> from_file_endian(Member(phdr, Off_p_filesz(cls)), le),
     flags  |-> from_file_endian(Member(phdr, Off_p_flags(cls)), le)]

(***************************************************************************)
(* Paths: fs::path as stem and extension                                   *)
(***************************************************************************)
DigitChar == <<"0", "1", "2", "3", "4", "5", "6", "7", "8", "9">>

RECURSIVE Decimal(_)
Decimal(n) == IF n < 10 THEN DigitChar[n + 1]
              ELSE Decimal(n \div 10) \o DigitChar[(n % 10) + 1]

BxxExtensionUnpadded(segment_index) == ".b" \o Decimal(segment_index)

\* format(".b{:02d}", segment_index)
BxxExtension(segment_index) ==
    ".b" \o (IF segment_index < 10 THEN "0" ELSE "") \o Decimal(segment_index)

replace_extension(path, ext) == [path EXCEPT !.ext = ext]

BxxPath(path, segment_index) ==
    replace_extension(path, BxxExtension(segment_index))

HasMdtExtensionAny(path) == TRUE

\* mdt_path.extension() == ".mdt"
HasMdtExtension(path) == path.ext = ".mdt"

MbnIn  == [stem |-> "in", ext |-> ".mbn"]
MbnOut == [stem |-> "out", ext |-> ".mbn"]
MdtGood == [stem |-> "fw", ext |-> ".mdt"]
MdtBad  == [stem |-> "fw", ext |-> ".bin"]
\* a file already on disk under a .mdt name, without .bNN siblings
MdtStray == [stem |-> "old", ext |-> ".mdt"]

\* the mdt arguments the programs are invoked with
SplitArgs == {MdtGood, MdtBad}
SquashArgs == {MdtGood, MdtBad, MdtStray}

\* ofstream(path, binary | trunc)
CreateTrunc(d, path) == (path :> NoBytes) @@ d

Store(d, path, data) == (path :> data) @@ d

(***************************************************************************)
(* The mbn images the programs are run on.  An image is described by its   *)
(* ELF class and data encoding, e_phoff, and for each program header its   *)
(* p_offset, p_filesz and whether its p_flags mark a hash segment; the     *)
(* file holds the header, padding up to e_phoff, the table and SegLen      *)
(* bytes of data.  Fields the programs do not decode hold filler bytes.    *)
(***************************************************************************)
BadMagic == <<127, 69, 76, 71>>

HashFlags == <<4, 0, 32, 10>>    \* 0x0A200004: bits 24..26 = 010
PlainFlags == <<6, 0, 0, 6>>     \* 0x06000006: bits 24..26 = 110

Encode(n, w, le) == IF le THEN Digits(n, w) ELSE Reverse(Digits(n, w))

EncodeDigits(d, le) == IF le THEN d ELSE Reverse(d)

InField(o, ow) == o >= ow[1] /\ o < ow[1] + ow[2]

TableEnd(inp) == inp.phoff + Len(inp.segs) * PhSize(inp.cls)

DataStart(inp) == Max(EhSize(inp.cls), TableEnd(inp))

EhdrBytes(inp) ==
    LET le == inp.data # ELFDATA2MSB
        c == inp.cls
    IN  [k \in 1..EhSize(c) |->
            LET o == k - 1 IN
            IF o < SELFMAG THEN (IF inp.magic_ok THEN ELFMAG[k] ELSE BadMagic[k])
            ELSE IF o = EI_CLASS THEN inp.ei_class
            ELSE IF o = EI_DATA THEN inp.data
            ELSE IF o < EI_NIDENT THEN (IF o = 6 THEN 1 ELSE 0)
            ELSE IF InField(o, Off_e_phoff(c))
                THEN Encode(inp.phoff, Off_e_phoff(c)[2], le)[k - Off_e_phoff(c)[1]]
            ELSE IF InField(o, Off_e_phnum(c))
                THEN Encode(Len(inp.segs), 2, le)[k - Off_e_phnum(c)[1]]
            ELSE 17 + ((o * 7) % 200)]

PhdrBytes(inp, i) ==
    LET le == inp.data # ELFDATA2MSB
        c == inp.cls
        sg == inp.segs[i]
    IN  [k \in 1..PhSize(c) |->
            LET o == k - 1 IN
            IF InField(o, Off_p_offset(c))
                THEN Encode(sg.off, Off_p_offset(c)[2], le)[k - Off_p_offset(c)[1]]
            ELSE IF InField(o, Off_p_filesz(c))
                THEN Encode(sg.sz, Off_p_filesz(c)[2], le)[k - Off_p_filesz(c)[1]]
            ELSE IF InField(o, Off_p_flags(c))
                THEN EncodeDigits(IF sg.hash THEN HashFlags ELSE PlainFlags, le)
                        [k - Off_p_flags(c)[1]]
            ELSE 33 + (((o + 5 * i) * 3) % 200)]

RECURSIVE TableBytes(_, _)
TableBytes(inp, n) ==
    IF n = 0 THEN <<>> ELSE TableBytes(inp, n - 1) \o PhdrBytes(inp, n)

FullMbn(inp) ==
    EhdrBytes(inp)
    \o [k \in 1..(IF inp.phoff > EhSize(inp.cls)
                  THEN inp.phoff - EhSize(inp.cls) ELSE 0) |-> 250]
    \o TableBytes(inp, Len(inp.segs))
    \o [k \in 1..SegLen |-> 200 + k]

\* The image as stored: the first inp.len bytes of FullMbn
BuildMbn(inp) == SubSeq(FullMbn(inp), 1, inp.len)

\* The bytes of segment i of the image
SegmentBytes(inp, i) ==
    SubSeq(BuildMbn(inp), inp.segs[i].off + 1, inp.segs[i].off + inp.segs[i].sz)

\* Program headers: empty ones, one covering the header and the table, one
\* covering the data, one reaching past the end of the file
SegKinds(ds) ==
    {[off |-> 0, sz |-> 0, hash |-> h] : h \in BOOLEAN}
    \cup {[off |-> ds, sz |-> SegLen, hash |-> h] : h \in BOOLEAN}
    \cup {[off |-> 0, sz |-> ds, hash |-> h] : h \in BOOLEAN}
    \cup {[off |-> ds, sz |-> ds, hash |-> FALSE]}

MkInput(c, d, po, sg) ==
    [cls |-> c, data |-> d, ei_class |-> c, magic_ok |-> TRUE,
     phoff |-> po, segs |-> sg,
     len |-> Max(EhSize(c), po + Len(sg) * PhSize(c)) + SegLen]

\* ELF images with 0..MaxPh program headers
WellFormedInputs ==
    UNION {UNION {UNION {
        {MkInput(c, d, po, sg) :
            sg \in [1..n -> SegKinds(Max(EhSize(c), po + n * PhSize(c)))]} :
        po \in {EhSize(c) + PhGap} \cup (IF n = 0 THEN {0} ELSE {})} :
        n \in 0..MaxPh} :
        c \in {ELFCLASS32, ELFCLASS64}, d \in {ELFDATA2LSB, ELFDATA2MSB}}

SmallInput == MkInput(ELFCLASS32, ELFDATA2LSB, EhSize(ELFCLASS32),
                      <<[off |-> 0, sz |-> EhSize(ELFCLASS32) + PhSize(ELFCLASS32),
                         hash |-> FALSE]>>)

\* Images that are not ELF, and images cut short
MalformedInputs ==
    {[SmallInput EXCEPT !.magic_ok = FALSE],
     [SmallInput EXCEPT !.data = 0],
     [SmallInput EXCEPT !.ei_class = 3],
     [SmallInput EXCEPT !.len = EI_NIDENT - 1],
     [SmallInput EXCEPT !.len = EhSize(ELFCLASS32) - 1],
     [SmallInput EXCEPT !.len = EhSize(ELFCLASS32) + PhSize(ELFCLASS32) - 1]}

Inputs == WellFormedInputs \cup MalformedInputs

(***************************************************************************)
(* The programs.  One action per statement group of split / squash; a run  *)
(* that throws ends in main()'s handler, which records the kind of error.  *)
(***************************************************************************)
Ev(ev, path, off, len, seg) ==
    [ev |-> ev, path |-> path, off |-> off, len |-> len, seg |-> seg]

NoProbe == [fn |-> "none", width |-> 0, value |-> NoBytes, le |-> FALSE,
            once |-> NoBytes, twice |-> NoBytes, lsb |-> NoBytes, msb |-> NoBytes,
            other |-> NoBytes, hash |-> FALSE, other_hash |-> FALSE]

StatementOrderDetectFirst == <<"open", "detect", "create", "impl", "loop">>

\* The order of the statement groups of split() and of squash(): the
\* extension check and the input stream, the output stream,
\* detect_elf_format, then split_impl / squash_impl and its segment loop
StatementOrder == <<"open", "create", "detect", "impl", "loop">>

At(prog, step) == prog \o "_" \o step

\* The program's position once statement group `step` is done
After(prog, step) ==
    LET k == CHOOSE i \in 1..Len(StatementOrder) : StatementOrder[i] = step
    IN  At(prog, StatementOrder[k + 1])

\* main() returns: the streams are closed, the outcome is reported
Finish(prog, outcome) ==
    /\ pc' = "idle"
    /\ result' = [result EXCEPT ![prog] = outcome]
    /\ streams' = {}

\* p_filesz == 0: continue
SkipNever(p_filesz) == FALSE

SkipSegment(p_filesz) == ToNat(p_filesz) = 0

\* The image, and for a malformed one also a copy of it named old.mdt
InitialDisk(inp) ==
    IF inp \in MalformedInputs
    THEN (MbnIn :> BuildMbn(inp)) @@ (MdtStray :> BuildMbn(inp))
    ELSE (MbnIn :> BuildMbn(inp))

Init ==
    /\ input \in Inputs
    /\ host_le \in BOOLEAN
    /\ disk = InitialDisk(input)
    /\ pc = "idle"
    /\ mbn_path = MbnIn
    /\ mdt_path = MbnIn
    /\ result = [split |-> "none", squash |-> "none"]
    /\ streams = {}
    /\ format = NoFormat
    /\ ehdr = NoBytes
    /\ phdrs = <<>>
    /\ idx = 0
    /\ hash_offset = 0
    /\ trace = <<>>
    /\ probe = NoProbe

\* A run of the splitter starts from no outcome at all; a run of the
\* squasher keeps the outcome of the split that made its input
Cleared(prog) ==
    IF prog = "split" THEN [split |-> "none", squash |-> "none"] ELSE result

\* main() calls split / squash with its two arguments.  Nothing touches the
\* disk before the output stream is made, so the action runs up to there:
\* the extension check, then the input stream.
Start(prog, in_path, mdt) ==
    /\ pc = "idle"
    /\ format' = NoFormat
    /\ ehdr' = NoBytes
    /\ phdrs' = <<>>
    /\ idx' = 0
    /\ hash_offset' = 0
    /\ IF ~HasMdtExtension(mdt)
       THEN /\ pc' = "idle"
            /\ result' = [Cleared(prog) EXCEPT ![prog] = "naming"]
            /\ streams' = {}
            /\ trace' = <<>>
       ELSE IF in_path \notin DOMAIN disk
       THEN /\ pc' = "idle"
            /\ result' = [Cleared(prog) EXCEPT ![prog] = "open_failed"]
            /\ streams' = {}
            /\ trace' = <<>>
       ELSE /\ pc' = After(prog, "open")
            /\ result' = [Cleared(prog) EXCEPT ![prog] = "running"]
            /\ streams' = {IF prog = "split" THEN "mbn" ELSE "mdt"}
            /\ trace' = <<Ev("open", in_path, 0, 0, -1)>>
    /\ UNCHANGED <<disk, host_le, input, probe>>

\* pil-splitter <mbn input> <mdt output>
StartSplit(mdt) ==
    /\ Start("split", MbnIn, mdt)
    /\ mbn_path' = MbnIn
    /\ mdt_path' = mdt

\* pil-squasher <mbn output> <mdt input>
StartSquash(mdt) ==
    /\ Start("squash", mdt, mdt)
    /\ mbn_path' = MbnOut
    /\ mdt_path' = mdt

(***************************************************************************)
(* split                                                                   *)
(***************************************************************************)
SplitCreateMdt ==
    /\ pc = "split_create"
    /\ pc' = After("split", "create")
    /\ disk' = CreateTrunc(disk, mdt_path)
    /\ streams' = streams \cup {"mdt"}
    /\ trace' = Append(trace, Ev("create", mdt_path, 0, 0, -1))
    /\ UNCHANGED <<host_le, input, mbn_path, mdt_path, result, format, ehdr,
                   phdrs, idx, hash_offset, probe>>

SplitDetect ==
    /\ pc = "split_detect"
    /\ LET f == detect_elf_format(disk[mbn_path], TRUE) IN
       /\ trace' = Append(trace, Ev("detect", mbn_path, 0, EI_NIDENT, -1))
       /\ IF f.err # "none"
          THEN Finish("split", f.err) /\ UNCHANGED format
          ELSE pc' = After("split", "detect") /\ format' = f /\ UNCHANGED <<result, streams>>
    /\ UNCHANGED <<disk, host_le, input, mbn_path, mdt_path, ehdr, phdrs, idx,
                   hash_offset, probe>>

\* The same, but with e_phoff written back from its decoded value
WriteHeadersReencoded(data, eh, phs, cls, le) ==
    LET o == Off_e_phoff(cls)
        W[i \in 0..Len(phs)] ==
            IF i = 0 THEN write_file_at(data, 0, eh)
            ELSE write_file_at(W[i - 1],
                    ToNat(from_file_endian(Member(eh, o), le))
                        + (i - 1) * PhSize(cls), phs[i])
    IN  write_file_at(W[Len(phs)], o[1],
                      from_file_endian(SubSeq(eh, o[1] + 1, o[1] + o[2]), le))

\* The header and, one by one, the table entries, each at its offset
WriteHeaders(data, eh, phs, cls, le) ==
    LET phoff == ToNat(from_file_endian(Member(eh, Off_e_phoff(cls)), le))
        W[i \in 0..Len(phs)] ==
            IF i = 0 THEN write_file_at(data, 0, eh)
            ELSE write_file_at(W[i - 1], phoff + (i - 1) * PhSize(cls), phs[i])
    IN  W[Len(phs)]

HeaderEvents(path, ev, eh, phs, cls, le) ==
    LET phoff == ToNat(from_file_endian(Member(eh, Off_e_phoff(cls)), le))
    IN  <<Ev(ev \o "_ehdr", path, 0, EhSize(cls), -1)>>
        \o [i \in 1..Len(phs) |->
               Ev(ev \o "_phdr", path, phoff + (i - 1) * PhSize(cls),
                  PhSize(cls), i - 1)]

\* split_impl up to the segment loop
SplitImplHead ==
    /\ pc = "split_impl"
    /\ LET cls == format.elf_class
           le == format.is_little_endian
           eh == read_elf_header(disk[mbn_path], TRUE, cls)
           ph == read_program_headers(disk[mbn_path], TRUE, eh.bytes, cls, le)
       IN  IF eh.err # "none"
           THEN /\ Finish("split", eh.err)
                /\ trace' = Append(trace, Ev("read_ehdr", mbn_path, 0, EhSize(cls), -1))
                /\ UNCHANGED <<disk, ehdr, phdrs>>
           ELSE IF ph.err # "none"
           THEN /\ Finish("split", ph.err)
                /\ trace' = Append(trace, Ev("read_ehdr", mbn_path, 0, EhSize(cls), -1))
                /\ ehdr' = eh.bytes
                /\ UNCHANGED <<disk, phdrs>>
           ELSE /\ pc' = After("split", "impl")
                /\ ehdr' = eh.bytes
                /\ phdrs' = ph.phdrs
                /\ disk' = Store(disk, mdt_path,
                      WriteHeaders(disk[mdt_path], eh.bytes, ph.phdrs, cls, le))
                /\ trace' = trace
                      \o HeaderEvents(mbn_path, "read", eh.bytes, ph.phdrs, cls, le)
                      \o HeaderEvents(mdt_path, "write", eh.bytes, ph.phdrs, cls, le)
                /\ UNCHANGED <<result, streams>>
    /\ idx' = 0
    /\ UNCHANGED <<host_le, input, mbn_path, mdt_path, format, hash_offset, probe>>

WritesBxxPlainOnly(p_flags) == ~is_pil_hash_segment(p_flags)

\* write_segment_file is called for every segment the loop does not skip,
\* whatever its flags
WritesBxx(p_flags) == TRUE

\* One iteration of split_impl's segment loop
SplitSegment ==
    /\ pc = "split_loop"
    /\ idx < Len(phdrs)
    /\ LET info == get_phdr_info(phdrs[idx + 1], format.elf_class,
                                 format.is_little_endian)
           off == ToNat(info.offset)
           sz == ToNat(info.filesz)
           seg == read_file_at(disk[mbn_path], TRUE, off, sz)
           bxx == BxxPath(mdt_path, idx)
           d1 == IF WritesBxx(info.flags) THEN Store(disk, bxx, seg.bytes) ELSE disk
           d2 == IF is_pil_hash_segment(info.flags)
                 THEN Store(d1, mdt_path, append_to_file(d1[mdt_path], seg.bytes))
                 ELSE d1
       IN  IF SkipSegment(info.filesz)
           THEN /\ idx' = idx + 1
                /\ UNCHANGED <<disk, pc, result, streams, trace>>
           ELSE IF seg.err # "none"
           THEN /\ Finish("split", seg.err)
                /\ trace' = Append(trace, Ev("read", mbn_path, off, sz, idx))
                /\ UNCHANGED <<disk, idx>>
           ELSE /\ disk' = d2
                /\ idx' = idx + 1
                /\ trace' = trace
                      \o <<Ev("read", mbn_path, off, sz, idx)>>
                      \o (IF WritesBxx(info.flags)
                          THEN <<Ev("create", bxx, 0, 0, idx),
                                 Ev("write", bxx, 0, sz, idx)>>
                          ELSE <<>>)
                      \o (IF is_pil_hash_segment(info.flags)
                          THEN <<Ev("append", mdt_path, Len(d1[mdt_path]), sz, idx)>>
                          ELSE <<>>)
                /\ UNCHANGED <<pc, result, streams>>
    /\ UNCHANGED <<host_le, input, mbn_path, mdt_path, format, ehdr, phdrs,
                   hash_offset, probe>>

SplitReturn ==
    /\ pc = "split_loop"
    /\ idx = Len(phdrs)
    /\ Finish("split", "ok")
    /\ UNCHANGED <<disk, host_le, input, mbn_path, mdt_path, format, ehdr,
                   phdrs, idx, hash_offset, trace, probe>>

(***************************************************************************)
(* squash                                                                  *)
(***************************************************************************)
SquashCreateMbn ==
    /\ pc = "squash_create"
    /\ pc' = After("squash", "create")
    /\ disk' = CreateTrunc(disk, mbn_path)
    /\ streams' = streams \cup {"mbn"}
    /\ trace' = Append(trace, Ev("create", mbn_path, 0, 0, -1))
    /\ UNCHANGED <<host_le, input, mbn_path, mdt_path, result, format, ehdr,
                   phdrs, idx, hash_offset, probe>>

SquashDetect ==
    /\ pc = "squash_detect"
    /\ LET f == detect_elf_format(disk[mdt_path], TRUE) IN
       /\ trace' = Append(trace, Ev("detect", mdt_path, 0, EI_NIDENT, -1))
       /\ IF f.err # "none"
          THEN Finish("squash", f.err) /\ UNCHANGED format
          ELSE pc' = After("squash", "detect") /\ format' = f /\ UNCHANGED <<result, streams>>
    /\ UNCHANGED <<disk, host_le, input, mbn_path, mdt_path, ehdr, phdrs, idx,
                   hash_offset, probe>>

Crash == -1

\* A value read from memory the program does not own
Garbage == {0, Huge}

\* size_t hash_offset = from_file_endian(phdrs[0].p_filesz, ...): the values
\* the initialisation can produce.  phdrs[0] of an empty vector is undefined
\* behaviour: the read faults, or yields whatever the memory holds.
HashOffsetInit(phs, eh, cls, le) ==
    IF phs = <<>> THEN {Crash} \cup Garbage
    ELSE {ToNat(from_file_endian(Member(phs[1], Off_p_filesz(cls)), le))}

\* squash_impl up to the segment loop
SquashImplHead ==
    /\ pc = "squash_impl"
    /\ LET cls == format.elf_class
           le == format.is_little_endian
           eh == read_elf_header(disk[mdt_path], TRUE, cls)
           ph == read_program_headers(disk[mdt_path], TRUE, eh.bytes, cls, le)
       IN  IF eh.err # "none"
           THEN /\ Finish("squash", eh.err)
                /\ trace' = Append(trace, Ev("read_ehdr", mdt_path, 0, EhSize(cls), -1))
                /\ UNCHANGED <<disk, ehdr, phdrs, hash_offset>>
           ELSE IF ph.err # "none"
           THEN /\ Finish("squash", ph.err)
                /\ trace' = Append(trace, Ev("read_ehdr", mdt_path, 0, EhSize(cls), -1))
                /\ ehdr' = eh.bytes
                /\ UNCHANGED <<disk, phdrs, hash_offset>>
           ELSE /\ ehdr' = eh.bytes
                /\ phdrs' = ph.phdrs
                /\ trace' = trace
                      \o HeaderEvents(mdt_path, "read", eh.bytes, ph.phdrs, cls, le)
                      \o HeaderEvents(mbn_path, "write", eh.bytes, ph.phdrs, cls, le)
                /\ \E h \in HashOffsetInit(ph.phdrs, eh.bytes, cls, le) :
                      IF h = Crash
                      THEN \* the process dies with the header still in the
                           \* stream's buffer
                           /\ Finish("squash", "crash")
                           /\ UNCHANGED <<disk, hash_offset>>
                      ELSE /\ pc' = After("squash", "impl")
                           /\ hash_offset' = h
                           /\ disk' = Store(disk, mbn_path,
                                 WriteHeaders(disk[mbn_path], eh.bytes, ph.phdrs,
                                              cls, le))
                           /\ UNCHANGED <<result, streams>>
    /\ idx' = 0
    /\ UNCHANGED <<host_le, input, mbn_path, mdt_path, format, probe>>

read_segment_data_lenient(d, mdt, segment_index, filesz, is_hash_segment, cursor) ==
    LET bxx == BxxPath(mdt, segment_index) IN
    IF is_hash_segment
    THEN LET r == read_file_at(d[mdt], TRUE, cursor, filesz) IN
         [err |-> r.err, bytes |-> r.bytes,
          cursor |-> IF r.err = "none" THEN cursor + filesz ELSE cursor,
          events |-> <<Ev("read", mdt, cursor, filesz, segment_index)>>]
    ELSE IF bxx \notin DOMAIN d
    THEN [err |-> "none", bytes |-> [k \in 1..filesz |-> 0], cursor |-> cursor,
          events |-> <<>>]
    ELSE LET r == read_file_at(d[bxx], TRUE, 0, filesz) IN
         [err |-> r.err, bytes |-> r.bytes, cursor |-> cursor,
          events |-> <<Ev("open", bxx, 0, 0, segment_index),
                       Ev("read", bxx, 0, filesz, segment_index)>>]

\* read_segment_data: the bytes of segment i, the cursor after it, the
\* file operations made
read_segment_data(d, mdt, segment_index, filesz, is_hash_segment, cursor) ==
    LET bxx == BxxPath(mdt, segment_index) IN
    IF is_hash_segment
    THEN LET r == read_file_at(d[mdt], TRUE, cursor, filesz) IN
         [err |-> r.err, bytes |-> r.bytes,
          cursor |-> IF r.err = "none" THEN cursor + filesz ELSE cursor,
          events |-> <<Ev("read", mdt, cursor, filesz, segment_index)>>]
    ELSE IF bxx \notin DOMAIN d
    THEN [err |-> "missing_segment", bytes |-> NoBytes, cursor |-> cursor,
          events |-> <<>>]
    ELSE LET r == read_file_at(d[bxx], TRUE, 0, filesz) IN
         [err |-> r.err, bytes |-> r.bytes, cursor |-> cursor,
          events |-> <<Ev("open", bxx, 0, 0, segment_index),
                       Ev("read", bxx, 0, filesz, segment_index)>>]

\* One iteration of squash_impl's segment loop
SquashSegment ==
    /\ pc = "squash_loop"
    /\ idx < Len(phdrs)
    /\ LET info == get_phdr_info(phdrs[idx + 1], format.elf_class,
                                 format.is_little_endian)
           off == ToNat(info.offset)
           sz == ToNat(info.filesz)
           seg == read_segment_data(disk, mdt_path, idx, sz,
                                    is_pil_hash_segment(info.flags), hash_offset)
       IN  IF SkipSegment(info.filesz)
           THEN /\ idx' = idx + 1
                /\ UNCHANGED <<disk, pc, result, streams, trace, hash_offset>>
           ELSE IF seg.err # "none"
           THEN /\ Finish("squash", seg.err)
                /\ trace' = trace \o seg.events
                /\ UNCHANGED <<disk, idx, hash_offset>>
           ELSE /\ disk' = Store(disk, mbn_path,
                                 write_file_at(disk[mbn_path], off, seg.bytes))
                /\ hash_offset' = seg.cursor
                /\ idx' = idx + 1
                /\ trace' = trace \o seg.events
                                  \o <<Ev("write", mbn_path, off, sz, idx)>>
                /\ UNCHANGED <<pc, result, streams>>
    /\ UNCHANGED <<host_le, input, mbn_path, mdt_path, format, ehdr, phdrs, probe>>

SquashReturn ==
    /\ pc = "squash_loop"
    /\ idx = Len(phdrs)
    /\ Finish("squash", "ok")
    /\ UNCHANGED <<disk, host_le, input, mbn_path, mdt_path, format, ehdr,
                   phdrs, idx, hash_offset, trace, probe>>

Next ==
    \/ \E mdt \in SplitArgs : StartSplit(mdt)
    \/ \E mdt \in SquashArgs : StartSquash(mdt)
    \/ SplitCreateMdt
    \/ SplitDetect
    \/ SplitImplHead
    \/ SplitSegment
    \/ SplitReturn
    \/ SquashCreateMbn
    \/ SquashDetect
    \/ SquashImplHead
    \/ SquashSegment
    \/ SquashReturn

Spec == Init /\ [][Next]_vars

(***************************************************************************)
(* The pure functions, applied to sampled arguments                        *)
(***************************************************************************)
ProbeBytes == {0, 18, 255}
ProbeWidths == {1, 2, 4, 8}

InitPure ==
    /\ input = SmallInput
    /\ disk = InitialDisk(SmallInput)
    /\ pc = "idle"
    /\ mbn_path = MbnIn
    /\ mdt_path = MbnIn
    /\ result = [split |-> "none", squash |-> "none"]
    /\ streams = {}
    /\ format = NoFormat
    /\ ehdr = NoBytes
    /\ phdrs = <<>>
    /\ idx = 0
    /\ hash_offset = 0
    /\ trace = <<>>

\* The arguments are drawn in the initial state; the action applies the
\* function to them
EndianArgs ==
    UNION {{[NoProbe EXCEPT !.fn = "args", !.width = w, !.value = v, !.le = le] :
               v \in [1..w -> ProbeBytes], le \in BOOLEAN} : w \in ProbeWidths}

InitEndian == InitPure /\ host_le \in BOOLEAN /\ probe \in EndianArgs

\* from_file_endian on a value, on its own result, and on the little- and
\* big-endian file encodings of the value as read_struct_at delivers them
ProbeEndian ==
    /\ probe.fn = "args"
    /\ probe' = [probe EXCEPT
                    !.fn = "from_file_endian",
                    !.once = from_file_endian(probe.value, probe.le),
                    !.twice = from_file_endian(
                                 from_file_endian(probe.value, probe.le), probe.le),
                    !.lsb = from_file_endian(bit_cast(probe.value), TRUE),
                    !.msb = from_file_endian(bit_cast(Reverse(probe.value)), FALSE)]
    /\ UNCHANGED <<disk, host_le, input, pc, mbn_path, mdt_path, result, streams,
                   format, ehdr, phdrs, idx, hash_offset, trace>>

SpecEndian == InitEndian /\ [][ProbeEndian]_vars

FlagSamples ==
    {<<a, 0, b, t>> : a \in {0, 6}, b \in {0, 255}, t \in 0..255}

OtherFlagSamples ==
    {<<a, a, 32, t>> : a \in {0, 255}, t \in (0..7) \cup (248..255)}

ClassifyArgs ==
    {[NoProbe EXCEPT !.fn = "args", !.width = 4, !.value = f, !.other = g] :
        f \in FlagSamples, g \in OtherFlagSamples}

InitClassify == InitPure /\ host_le = TRUE /\ probe \in ClassifyArgs

\* is_pil_hash_segment on two p_flags values
ProbeClassify ==
    /\ probe.fn = "args"
    /\ probe' = [probe EXCEPT
                    !.fn = "is_pil_hash_segment",
                    !.hash = is_pil_hash_segment(probe.value),
                    !.other_hash = is_pil_hash_segment(probe.other)]
    /\ UNCHANGED <<disk, host_le, input, pc, mbn_path, mdt_path, result, streams,
                   format, ehdr, phdrs, idx, hash_offset, trace>>

SpecClassify == InitClassify /\ [][ProbeClassify]_vars

(***************************************************************************)
(* Notions the properties are stated with                                  *)
(***************************************************************************)
\* The program of the running (or last) invocation, its input and output
LastProg == IF mbn_path = MbnOut THEN "squash" ELSE "split"
InputPath == IF LastProg = "split" THEN mbn_path ELSE mdt_path
OutputPath == IF LastProg = "split" THEN mdt_path ELSE mbn_path

NumSegs == Len(input.segs)

NonEmpty(i) == input.segs[i].sz # 0

\* The bytes of the non-empty hash segments among the first n, in index order
RECURSIVE HashStream(_, _)
HashStream(inp, n) ==
    IF n = 0 THEN <<>>
    ELSE HashStream(inp, n - 1)
         \o (IF inp.segs[n].hash /\ inp.segs[n].sz # 0
             THEN SegmentBytes(inp, n) ELSE <<>>)

\* Bit k of a digit sequence
Bit(v, k) == (v[(k \div 8) + 1] \div (2^(k % 8))) % 2

\* split of the image to fw.mdt returned normally, then squash of fw.mdt to
\* out.mbn ended
SplitThenSquash ==
    /\ pc = "idle"
    /\ result.split = "ok"
    /\ result.squash \notin {"none", "running"}
    /\ mdt_path = MdtGood

RoundTripOk ==
    /\ result.squash = "ok"
    /\ MbnOut \in DOMAIN disk
    /\ disk[MbnOut] = BuildMbn(input)

(***************************************************************************)
(* C1: for every well-formed ELF image, split followed by squash of the    *)
(* emitted files ends without error and the output equals the image byte   *)
(* for byte.                                                               *)
(***************************************************************************)
C1_RoundTrip ==
    (SplitThenSquash /\ input \in WellFormedInputs) => RoundTripOk

(***************************************************************************)
(* C2: when program header 0 is a non-empty hash segment and program       *)
(* header 1 a non-empty non-hash segment, split followed by squash         *)
(* succeeds and reproduces the image.                                      *)
(***************************************************************************)
C2_HashFirstRoundTrip ==
    (/\ SplitThenSquash
     /\ input \in WellFormedInputs
     /\ NumSegs >= 2
     /\ input.segs[1].hash /\ NonEmpty(1)
     /\ ~input.segs[2].hash /\ NonEmpty(2)
     /\ input.segs[1].off # input.segs[2].off)
    => RoundTripOk

(***************************************************************************)
(* C3: after a successful split the mdt holds the ELF header at offset 0,  *)
(* the program header table at e_phoff, the bytes of the non-empty hash    *)
(* segments in index order from the first byte after the table, and        *)
(* nothing else.                                                           *)
(***************************************************************************)
C3_MdtLayout ==
    result.split = "ok" =>
        LET m == disk[MdtGood]
            es == EhSize(input.cls)
            ps == PhSize(input.cls)
            te == TableEnd(input)
            hs == HashStream(input, NumSegs)
        IN  /\ Len(m) = IF NumSegs = 0 THEN es ELSE te + Len(hs)
            /\ SubSeq(m, 1, es) = EhdrBytes(input)
            /\ \A i \in 1..NumSegs :
                  SubSeq(m, input.phoff + (i - 1) * ps + 1, input.phoff + i * ps)
                      = PhdrBytes(input, i)
            /\ SubSeq(m, te + 1, te + Len(hs)) = hs

C3_Witness ==
    /\ result.split = "ok"
    /\ pc = "idle"
    /\ NumSegs = 2
    /\ input.segs[1].hash /\ NonEmpty(1)
    /\ input.segs[2].hash /\ NonEmpty(2)
    /\ input.segs[1].sz # input.segs[2].sz
    /\ input.phoff > EhSize(input.cls)

(***************************************************************************)
(* C4 as stated: split creates .bNN for index NN exactly when the segment  *)
(* is non-empty and not hash-classified.                                   *)
(***************************************************************************)
C4_BxxOnlyForPlain ==
    result.split = "ok" =>
        \A i \in 0..(MaxPh + 1) :
            BxxPath(MdtGood, i) \in DOMAIN disk
                <=> (i < NumSegs /\ NonEmpty(i + 1) /\ ~input.segs[i + 1].hash)

(***************************************************************************)
(* C4 amended: split creates .bNN for index NN exactly when the segment is *)
(* non-empty, hash-classified or not, and the file holds the segment's     *)
(* bytes; a hash segment's bytes are in its .bNN file and in the mdt.      *)
(***************************************************************************)
C4_BxxForEveryNonEmpty ==
    result.split = "ok" =>
        \A i \in 0..(MaxPh + 1) :
            /\ BxxPath(MdtGood, i) \in DOMAIN disk
                  <=> (i < NumSegs /\ NonEmpty(i + 1))
            /\ BxxPath(MdtGood, i) \in DOMAIN disk
                  => disk[BxxPath(MdtGood, i)] = SegmentBytes(input, i + 1)

C4_Witness ==
    /\ result.split = "ok"
    /\ NumSegs = 2
    /\ input.segs[1].hash /\ NonEmpty(1)
    /\ ~input.segs[2].hash /\ NonEmpty(2)
    /\ BxxPath(MdtGood, 0) \in DOMAIN disk
    /\ BxxPath(MdtGood, 1) \in DOMAIN disk

(***************************************************************************)
(* C5: with an mdt path whose extension is not .mdt, split and squash end  *)
(* with the naming error before any file is opened, created or truncated:  *)
(* the files on disk are unchanged.                                        *)
(***************************************************************************)
C5_ExtensionValidation ==
    [][(pc = "idle" /\ mdt_path'.ext # ".mdt")
        => /\ pc' = "idle"
           /\ result'[LastProg'] = "naming"
           /\ disk' = disk
           /\ streams' = {}
           /\ trace' = <<>>]_vars

C5_Witness ==
    /\ pc = "idle"
    /\ result.split = "naming"
    /\ result.squash = "naming"
    /\ MdtGood \notin DOMAIN disk
    /\ MbnOut \notin DOMAIN disk

(***************************************************************************)
(* C6: when squash comes to a non-empty non-hash program header i whose    *)
(* .b<i> file cannot be opened, it ends with the missing-segment error and *)
(* no segment with index >= i has been written to the output.              *)
(***************************************************************************)
C6_MissingSibling ==
    [][(/\ pc = "squash_loop"
        /\ idx < NumSegs
        /\ idx < Len(phdrs)
        /\ NonEmpty(idx + 1)
        /\ ~input.segs[idx + 1].hash
        /\ BxxPath(mdt_path, idx) \notin DOMAIN disk)
        => /\ pc' = "idle"
           /\ result'.squash = "missing_segment"
           /\ disk' = disk
           /\ \A k \in 1..Len(trace') :
                 (trace'[k].ev = "write" /\ trace'[k].path = mbn_path)
                     => trace'[k].seg < idx]_vars

C6_Witness ==
    /\ pc = "idle"
    /\ result.squash = "missing_segment"
    /\ idx = 1
    /\ \E k \in 1..Len(trace) : trace[k].ev = "write" /\ trace[k].seg = 0

(***************************************************************************)
(* C7: for a program header with p_filesz = 0, hash-classified or not,     *)
(* split creates no .bNN file and appends nothing to the mdt, and squash   *)
(* opens and reads no file, leaves the hash cursor where it is and writes  *)
(* nothing.                                                                *)
(***************************************************************************)
C7_ZeroLengthSkip ==
    [][(/\ pc \in {"split_loop", "squash_loop"}
        /\ idx < NumSegs
        /\ idx < Len(phdrs)
        /\ ~NonEmpty(idx + 1))
        => /\ disk' = disk
           /\ trace' = trace
           /\ hash_offset' = hash_offset
           /\ streams' = streams
           /\ pc' = pc
           /\ idx' = idx + 1]_vars

C7_Witness ==
    /\ result.split = "ok"
    /\ pc = "squash_loop"
    /\ NumSegs = 2
    /\ idx = 2
    /\ NonEmpty(1)
    /\ ~NonEmpty(2) /\ input.segs[2].hash
    /\ BxxPath(MdtGood, 1) \notin DOMAIN disk

(***************************************************************************)
(* C8: from_file_endian returns the value unchanged when the file's        *)
(* encoding is the host's and with its bytes reversed otherwise, within    *)
(* the same width; applied twice it returns the value; the little- and the *)
(* big-endian encoding of a field decode to the same value.                *)
(***************************************************************************)
C8_ByteOrderAdapter ==
    probe.fn = "from_file_endian" =>
        /\ Len(probe.once) = probe.width
        /\ probe.once = IF probe.le = host_le THEN probe.value
                        ELSE Reverse(probe.value)
        /\ probe.twice = probe.value
        /\ probe.lsb = probe.msb
        /\ probe.lsb = probe.value

C8_Witness ==
    /\ probe.fn = "from_file_endian"
    /\ probe.width = 8
    /\ probe.le # host_le
    /\ probe.value = <<0, 18, 255, 0, 18, 18, 255, 255>>
    /\ probe.once = <<255, 255, 18, 18, 0, 255, 18, 0>>

(***************************************************************************)
(* C9: is_pil_hash_segment(p_flags) is true exactly when bits 24..26 of    *)
(* p_flags are 010; flags that agree on these bits are classified alike.   *)
(***************************************************************************)
C9_Classifier ==
    probe.fn = "is_pil_hash_segment" =>
        /\ probe.hash <=> (/\ Bit(probe.value, 24) = 0
                           /\ Bit(probe.value, 25) = 1
                           /\ Bit(probe.value, 26) = 0)
        /\ (\A k \in 24..26 : Bit(probe.value, k) = Bit(probe.other, k))
              => (probe.hash <=> probe.other_hash)

C9_Witness ==
    /\ probe.fn = "is_pil_hash_segment"
    /\ probe.hash
    /\ probe.other_hash
    /\ probe.value = <<6, 0, 255, 2>>
    /\ probe.other = <<255, 255, 32, 250>>

(***************************************************************************)
(* C10 as stated: the output file is created or truncated only after the   *)
(* input's ELF format has been detected, so a run that ends with a format  *)
(* error has not created or truncated its output.                          *)
(***************************************************************************)
C10_CreateAfterDetect ==
    /\ \A k \in 1..Len(trace) :
          (trace[k].ev = "create" /\ trace[k].path = OutputPath)
              => \E j \in 1..(k - 1) : trace[j].ev = "detect"
    /\ (pc = "idle" /\ IsFormatError(result[LastProg]))
          => ~\E k \in 1..Len(trace) :
                 trace[k].ev = "create" /\ trace[k].path = OutputPath

(***************************************************************************)
(* C10 amended: split and squash create or truncate their output after the *)
(* extension check and after the input has been opened, but before the     *)
(* input's ELF format is detected; a run that ends with a format error has *)
(* therefore created or truncated its output and leaves it empty, while a  *)
(* run that ends with a naming or open error has not touched it.           *)
(***************************************************************************)
C10_CreateBeforeDetect ==
    /\ \A k \in 1..Len(trace) :
          (trace[k].ev = "create" /\ trace[k].path = OutputPath)
              => /\ \E j \in 1..(k - 1) :
                       trace[j].ev = "open" /\ trace[j].path = InputPath
                 /\ \A j \in 1..(k - 1) : trace[j].ev # "detect"
    /\ \A k \in 1..Len(trace) :
          trace[k].ev = "detect"
              => \E j \in 1..(k - 1) :
                    trace[j].ev = "create" /\ trace[j].path = OutputPath
    /\ (pc = "idle" /\ IsFormatError(result[LastProg]))
          => /\ OutputPath \in DOMAIN disk
             /\ disk[OutputPath] = NoBytes
    /\ (pc = "idle" /\ result[LastProg] \in {"naming", "open_failed"})
          => ~\E k \in 1..Len(trace) : trace[k].ev = "create"

C10_Witness ==
    /\ pc = "idle"
    /\ LastProg = "squash"
    /\ IsFormatError(result.squash)
    /\ IsFormatError(result.split)
    /\ MdtGood \in DOMAIN disk
    /\ disk[MbnOut] = NoBytes

(***************************************************************************)
(* C11: whenever a read of a fixed-size structure or of a declared segment *)
(* length finds fewer bytes than requested, split or squash ends with the  *)
(* truncated-read error ("Incomplete read"), with no other error kind.     *)
(***************************************************************************)
\* The run ended on a read that asked for more bytes than its file holds
EndedOnShortRead ==
    /\ pc = "idle"
    /\ trace # <<>>
    /\ LET e == trace[Len(trace)]
       IN  /\ e.ev \in {"read_ehdr", "read"}
           /\ e.path \in DOMAIN disk
           /\ Available(disk[e.path], e.off, e.len) # e.len

C11_TruncatedReadKind ==
    EndedOnShortRead => result[LastProg] = "incomplete_read"

(***************************************************************************)
(* C12: squash's hash cursor starts at the decoded p_filesz of program     *)
(* header 0 and advances by p_filesz after each non-empty hash segment     *)
(* only; for every non-empty hash segment the mdt offset squash reads it   *)
(* from is the mdt offset split appended it at.                            *)
(***************************************************************************)
\* Sum of the lengths of the non-empty hash segments among the first n
HashBytesBefore(n) == Len(HashStream(input, n))

\* squash is running, or has run, on the files a successful split made
SquashOfSplit ==
    /\ LastProg = "squash"
    /\ mdt_path = MdtGood
    /\ result.split = "ok"
    /\ input \in WellFormedInputs
    /\ NumSegs >= 1

C12_HashStreamAgreement ==
    SquashOfSplit =>
        /\ pc = "squash_loop"
              => hash_offset = input.segs[1].sz + HashBytesBefore(idx)
        /\ \A k \in 1..Len(trace) :
              (trace[k].ev = "read" /\ trace[k].path = mdt_path)
                  => trace[k].off
                        = TableEnd(input) + HashBytesBefore(trace[k].seg)

(***************************************************************************)
(* C13: the .bNN file split writes for program header index i is named     *)
(* with the decimal value of i, zero-padded to two digits, and holds the   *)
(* p_filesz bytes of the mbn from p_offset on; squash opens the file named *)
(* by the same index for a non-hash segment; a skipped zero-length header  *)
(* leaves a gap in the numbering.                                          *)
(***************************************************************************)
\* The sibling of the mdt path for index i, spelled out
SiblingNames == <<".b00", ".b01", ".b02", ".b03", ".b04", ".b05">>

Sibling(i) == [stem |-> mdt_path.stem, ext |-> SiblingNames[i + 1]]

C13_IndexNaming ==
    /\ BxxExtension(7) = ".b07"
    /\ BxxExtension(42) = ".b42"
    /\ BxxExtension(100) = ".b100"
    /\ \A k \in 1..Len(trace) :
          LET e == trace[k] IN
          /\ (LastProg = "split" /\ e.ev = "create" /\ e.seg >= 0)
                => /\ e.path = Sibling(e.seg)
                   /\ e.path \in DOMAIN disk
                   /\ input \in WellFormedInputs
                         => disk[e.path]
                               = SubSeq(disk[mbn_path],
                                        input.segs[e.seg + 1].off + 1,
                                        input.segs[e.seg + 1].off
                                            + input.segs[e.seg + 1].sz)
          /\ (LastProg = "squash" /\ e.ev = "open" /\ e.seg >= 0)
                => /\ e.path = Sibling(e.seg)
                   /\ ~is_pil_hash_segment(
                          get_phdr_info(phdrs[e.seg + 1], format.elf_class,
                                        format.is_little_endian).flags)
    /\ (result.split = "ok" /\ mdt_path = MdtGood /\ input \in WellFormedInputs)
          => \A i \in 0..(NumSegs - 1) :
                Sibling(i) \in DOMAIN disk <=> NonEmpty(i + 1)

C13_Witness ==
    /\ LastProg = "squash"
    /\ mdt_path = MdtGood
    /\ result.split = "ok"
    /\ NumSegs = 2
    /\ ~NonEmpty(1)
    /\ NonEmpty(2) /\ ~input.segs[2].hash
    /\ [stem |-> "fw", ext |-> ".b00"] \notin DOMAIN disk
    /\ [stem |-> "fw", ext |-> ".b01"] \in DOMAIN disk
    /\ \E k \in 1..Len(trace) :
          /\ trace[k].ev = "open"
          /\ trace[k].path = [stem |-> "fw", ext |-> ".b01"]

(***************************************************************************)
(* Header regions of a file, located from the file's own bytes             *)
(***************************************************************************)
\* A header field of the file, decoded by the byte order e_ident names
FieldOf(src, ow) ==
    LET b == SubSeq(src, ow[1] + 1, ow[1] + ow[2])
    IN  ToNat(IF src[EI_DATA + 1] = ELFDATA2LSB THEN b ELSE Reverse(b))

\* Positions (from 1) of the ELF header and of the program header table
HeaderPositions(src) ==
    LET cls == src[EI_CLASS + 1]
        po == FieldOf(src, Off_e_phoff(cls))
        n == FieldOf(src, Off_e_phnum(cls))
    IN  (1..EhSize(cls)) \cup ((po + 1)..(po + n * PhSize(cls)))

\* Position k of the output lies in a segment the run has written
CoveredBySegment(k) ==
    \E j \in 1..Len(trace) :
        /\ trace[j].ev = "write"
        /\ trace[j].path = OutputPath
        /\ trace[j].seg >= 0
        /\ k > trace[j].off
        /\ k <= trace[j].off + trace[j].len

\* The run has written the header and the table to its output
HeadersWritten ==
    /\ \E j \in 1..Len(trace) :
          trace[j].ev = "write_ehdr" /\ trace[j].path = OutputPath
    /\ result[LastProg] # "crash"

C15_EmptyTable ==
    (pc = "idle" /\ input \in WellFormedInputs /\ NumSegs = 0
        /\ mdt_path = MdtGood)
    => /\ LastProg = "split"
             => /\ result.split = "ok"
                /\ disk[MdtGood] = EhdrBytes(input)
       /\ (LastProg = "squash" /\ result.split = "ok")
             => /\ result.squash = "ok"
                /\ disk[MbnOut] = EhdrBytes(input)

====
